---- MODULE Spec2Model ----
(***************************************************************************)
(* Model of the ride lifecycle core of the MindeloRide server:             *)
(* MemoryStorage (src/server/storage.ts:65-519), the HTTP route handlers   *)
(* of registerRoutes (src/server/storage.ts:1002-1607), the price engine   *)
(* calculatePrice and the insert schema of rides.                          *)
(*                                                                         *)
(* Every route handler is an async function.  A handler runs from one      *)
(* await to the next without interruption; at an await other handlers may  *)
(* run.  Each action below is one such uninterrupted segment, and the      *)
(* position of a handler between two segments is the pc of its request.    *)
(* The reads and writes of a storage method happen at the call (the        *)
(* methods of MemoryStorage touch their maps before their first await).    *)
(*                                                                         *)
(* Requests carry a valid token (authMiddleware answers 401 otherwise and  *)
(* touches nothing), and registrations are those that passed               *)
(* security.checkRateLimit and the pure input validations.                 *)
(*                                                                         *)
(* No branch of the code reads the clock or a stored timestamp: the        *)
(* timestamps are written and never tested.  The clock therefore advances  *)
(* only in the specification whose claims are about timestamps (SpecTime); *)
(* in the others every request falls in one millisecond.                   *)
(***************************************************************************)
EXTENDS Integers, Sequences, FiniteSets, TLC

\* ---------------------------------------------------------------- bounds
MaxTime == 3          \* Date.now() takes the values 1..MaxTime
MaxRides == 1         \* rides created in the lifecycle specifications
MaxPricedRides == 2   \* rides created in SpecCreate
MaxReqs == 2          \* ride requests in flight at once
MaxRegs == 1          \* registrations in flight at once
MaxCompletions == 2   \* cap on the growth of a driver's totalRides
MaxSockets == 2       \* WebSocket connections made
MaxWindows == 2       \* rate-limit windows the clock of SpecRate runs through

\* ------------------------------------------------------ program constants
Null == 0                 \* null / undefined of an id, a timestamp, a number
Undefined == "undefined"  \* null / undefined of a string field
InitialTotalRides == 150  \* totalRides of the sample driver
TrialMonths == 1          \* setMonth(getMonth() + 1)
CentsPerUnit == 100       \* estimatedPrice is stored in cents
BaseFare == 100
PerKm == 80
EstimatedDistance == 3
maxAttempts == 5          \* SecurityManager.maxAttempts
windowMs == 15 * 60 * 1000  \* SecurityManager.windowMs

RideStatuses == {"pending", "accepted", "started", "completed", "cancelled"}
SubscriptionStatuses == {"trial", "active", "expired", "cancelled"}

\* ----------------------------------------------------------------- inputs
Emails == {"joao@email.cv", "ana@email.cv"}
Roles == {"passenger", "driver"}
Phones == {Undefined, "+238 555-3333"}
Plates == {"", "cv-02-cd-456", "CV-02-CD-456"}
Places == {"Centro", "Laginha", "Monte Sossego"}
BodyPrices == {Null, 1}
BodyDriverIds == {Null, 1}
FavoriteDriverIds == {1, 2}
\* the bodies of POST /api/auth/register a client may send
Registrations == [email : Emails, role : Roles, phone : Phones, plate : Plates]
\* the registration of a passenger without a phone
PassengerRegistrations == {r \in Registrations : /\ r.email = "ana@email.cv"
                                                 /\ r.role = "passenger"
                                                 /\ r.phone = Undefined
                                                 /\ r.plate = ""}
\* the one registration the lifecycle specifications send: a new driver
CoreRegistrations == {r \in Registrations : /\ r.email = "ana@email.cv"
                                            /\ r.role = "driver"
                                            /\ r.phone = Undefined
                                            /\ r.plate = "cv-02-cd-456"}
RideIds == 1..MaxRides
ReqSlots == 1..MaxReqs
RegSlots == 1..MaxRegs
\* the slots of SpecDup, where one more registration is in flight
DupRegSlots == 1..(MaxRegs + 1)

VARIABLES
  now,            \* the value Date.now() / new Date() returns
  users,          \* MemoryStorage.users, in insertion order; the id is the index
  drivers,        \* MemoryStorage.drivers, in insertion order
  subscriptions,  \* MemoryStorage.subscriptions, in insertion order
  rides,          \* MemoryStorage.rides, in insertion order
  favorites,      \* MemoryStorage.favorites: passenger id -> Set, in insertion order
  reqs,           \* the ride and favorite requests being handled
  regs,           \* the registrations being handled
  resp,           \* the HTTP response the last step sent, if it sent one
  sockets,        \* the WebSocket connections made, in order of connection
  clients,        \* the map clients: user id -> socket
  sent,           \* the WebSocket messages the last step sent
  rateLimits      \* SecurityManager.rateLimitMap: identifier -> entry

vars == <<now, users, drivers, subscriptions, rides, favorites, reqs, regs, resp,
          sockets, clients, sent, rateLimits>>

\* ---------------------------------------------------------------- helpers
Min(S) == CHOOSE x \in S : \A y \in S : x <= y

\* Array.from(map.values()).find(p): the first of the matching entries in
\* insertion order, or Null
FindFirst(matches) == IF matches = {} THEN Null ELSE Min(matches)

Range(seq) == {seq[i] : i \in DOMAIN seq}

\* trialEndsAt.setMonth(trialEndsAt.getMonth() + n) on a date created at t:
\* the calendar arithmetic is kept symbolic
AddMonths(t, n) == [from |-> t, months |-> n]

\* licensePlate.trim().toUpperCase()
TrimUpper(p) ==
  CASE p = "cv-02-cd-456" -> "CV-02-CD-456"
    [] OTHER -> p

\* ------------------------------------------------------------- the store
getUserByEmail(email) == FindFirst({u \in DOMAIN users : users[u].email = email})

getDriverByUserId(userId) == FindFirst({d \in DOMAIN drivers : drivers[d].userId = userId})

getDriverByLicensePlate(licensePlate) ==
  FindFirst({d \in DOMAIN drivers :
               TrimUpper(drivers[d].licensePlate) = TrimUpper(licensePlate)})

getSubscriptionByDriverId(driverId) ==
  FindFirst({s \in DOMAIN subscriptions : subscriptions[s].driverId = driverId})

\* the user a valid token resolves to: the user and, for role driver, the
\* driver record found by userId (the object stored in the map at that time)
NoUser == [id |-> Null, role |-> "none", phone |-> Undefined,
           driver |-> Null, totalRides |-> 0]

getUserWithDriver(userId) ==
  LET d == IF users[userId].role = "driver" THEN getDriverByUserId(userId) ELSE Null
  IN [id |-> userId, role |-> users[userId].role, phone |-> users[userId].phone,
      driver |-> d, totalRides |-> IF d = Null THEN 0 ELSE drivers[d].totalRides]


\* --------------------------------------------------------- price engine
Zones == << [name |-> "Centro→Laginha", fixedPrice |-> 300],
            [name |-> "Centro→Aeroporto", fixedPrice |-> 1200],
            [name |-> "Laginha→Ribeira Bote", fixedPrice |-> 450] >>

calculatePrice(origin, destination) ==
  LET routeName == origin \o "→" \o destination
      reverseRouteName == destination \o "→" \o origin
      fixedRoute == FindFirst({z \in DOMAIN Zones :
                       Zones[z].name = routeName \/ Zones[z].name = reverseRouteName})
  IN IF fixedRoute # Null
       THEN Zones[fixedRoute].fixedPrice
       ELSE BaseFare + (EstimatedDistance * PerKm)

\* ------------------------------------------------------------ ride store
\* the body of POST /api/rides: the fields of insertRideSchema a client may send
RideBodies == [origin : Places, destination : Places, passengerPhone : Phones,
               estimatedPrice : BodyPrices, driverId : BodyDriverIds]

\* the one body the lifecycle specifications send
CoreBodies == {b \in RideBodies : /\ b.origin = "Centro"
                                  /\ b.destination = "Laginha"
                                  /\ b.passengerPhone = Undefined
                                  /\ b.estimatedPrice = Null
                                  /\ b.driverId = Null}

\* rideDataOf with the body spread after the computed fields
rideDataBodyLast(user, body) ==
  [passengerId |-> user.id,
   driverId |-> body.driverId,
   origin |-> body.origin,
   destination |-> body.destination,
   passengerPhone |-> IF user.phone \notin {Undefined, ""}
                        THEN user.phone ELSE body.passengerPhone,
   estimatedPrice |-> IF body.estimatedPrice # Null
                        THEN body.estimatedPrice
                        ELSE calculatePrice(body.origin, body.destination) * CentsPerUnit]

\* the object handed to insertRideSchema.parse: the body, with passengerId,
\* passengerPhone and estimatedPrice overwritten by the route
rideDataOf(user, body) ==
  [passengerId |-> user.id,
   driverId |-> body.driverId,
   origin |-> body.origin,
   destination |-> body.destination,
   passengerPhone |-> IF user.phone \notin {Undefined, ""}
                        THEN user.phone ELSE body.passengerPhone,
   estimatedPrice |-> calculatePrice(body.origin, body.destination) * CentsPerUnit]

\* insertRideSchema.parse succeeds: the notNull text columns are strings
\* (origin and destination always are, in the bodies sent)
insertRideSchemaAccepts(rideData) == rideData.passengerPhone # Undefined

\* the ride createRide stores
createRide(rideData) ==
  [passengerId |-> rideData.passengerId,
   driverId |-> rideData.driverId,
   origin |-> rideData.origin,
   destination |-> rideData.destination,
   passengerPhone |-> rideData.passengerPhone,
   estimatedPrice |-> rideData.estimatedPrice,
   finalPrice |-> Null,
   distance |-> Null,
   status |-> "pending",
   requestedAt |-> now,
   acceptedAt |-> Null,
   startedAt |-> Null,
   completedAt |-> Null]

\* the ride updateRideStatus stores in place of `ride`
updateRideStatus(ride, status, driverId) ==
  LET updatedRide == [ride EXCEPT !.status = status]
  IN IF status = "accepted" /\ driverId # Null
       THEN [updatedRide EXCEPT !.driverId = driverId, !.acceptedAt = now]
     ELSE IF status = "started"
       THEN [updatedRide EXCEPT !.startedAt = now]
     ELSE IF status = "completed"
       THEN [updatedRide EXCEPT !.completedAt = now]
     ELSE updatedRide

\* the driver updateDriver stores in place of `driver`
updateDriver(driver, totalRides) == [driver EXCEPT !.totalRides = totalRides]

\* getRide of a stored ride: the ride as it is in the map at the call
getRide(id) == [status |-> rides[id].status, driverId |-> rides[id].driverId]

\* subscriptionDenies testing the wrong status
subscriptionDeniesCancelled(sub) == sub # "none" /\ sub = "cancelled"

\* the accept route's subscription check refuses: `sub` is the status of the
\* subscription object getSubscriptionByDriverId returned, "none" for null
subscriptionDenies(sub) == sub # "none" /\ sub = "expired"

\* the status of the first subscription of the driver, "none" when there is none
subscriptionStatusOf(driverId) ==
  LET sub == getSubscriptionByDriverId(driverId)
  IN IF sub = Null THEN "none" ELSE subscriptions[sub].status

\* ---------------------------------------------------------------- Init
\* the fields of a RideWithDetails the notifications are read for, before any
\* getRide
NoSnapshot == [status |-> "none", driverId |-> Null]

IdleReq == [op |-> "none", pc |-> "idle", user |-> NoUser, param |-> Null,
            body |-> <<>>, sub |-> "none", from |-> "none", out |-> Null,
            snapshot |-> NoSnapshot]

IdleReg == [pc |-> "idle", email |-> "", role |-> "none", phone |-> Undefined,
            plate |-> "", existingUser |-> Null, existingDriver |-> Null]

NoResp == [op |-> "none", user |-> Null, driver |-> Null, param |-> Null,
           code |-> 0, out |-> Null, sub |-> "none", from |-> "none"]

\* the state initializeData builds
Init ==
  /\ now = 1
  /\ users = << [email |-> "admin@mindeloride.cv", role |-> "admin", phone |-> "+238 555-0000"],
                [email |-> "joao@email.cv", role |-> "passenger", phone |-> "+238 555-1111"],
                [email |-> "manuel@email.cv", role |-> "driver", phone |-> "+238 555-2222"] >>
  /\ drivers = << [userId |-> 3, licensePlate |-> "CV-01-AB-123",
                   totalRides |-> InitialTotalRides] >>
  /\ subscriptions = << [driverId |-> 1, status |-> "trial",
                         trialEndsAt |-> AddMonths(1, TrialMonths)] >>
  /\ rides = << >>
  /\ favorites = [p \in {} |-> << >>]
  /\ reqs = [q \in ReqSlots |-> IdleReq]
  /\ regs = [g \in DupRegSlots |-> IdleReg]
  /\ resp = NoResp
  /\ sockets = << >>
  /\ clients = [u \in {} |-> Null]
  /\ sent = {}
  /\ rateLimits = [i \in {} |-> Null]

\* ---------------------------------------------------------------- clock
\* Tick turning a trial into expired
TickExpiring ==
  /\ now < MaxTime
  /\ now' = now + 1
  /\ subscriptions' = [s \in DOMAIN subscriptions |->
                        IF subscriptions[s].status = "trial"
                          THEN [subscriptions[s] EXCEPT !.status = "expired"]
                          ELSE subscriptions[s]]
  /\ resp' = NoResp
  /\ sent' = {}
  /\ UNCHANGED <<users, drivers, rides, favorites, reqs, regs,
                 sockets, clients, rateLimits>>

\* time passes between two steps of the program
Tick ==
  /\ now < MaxTime
  /\ now' = now + 1
  /\ resp' = NoResp
  /\ sent' = {}
  /\ UNCHANGED <<users, drivers, subscriptions, rides, favorites, reqs, regs,
                 sockets, clients, rateLimits>>

\* ---------------------------------------------------------- registration
\* the slot a new request takes: the first idle one
FreeReg(g) == regs[g].pc = "idle" /\ \A h \in RegSlots : h < g => regs[h].pc # "idle"

FreeReq(q) == reqs[q].pc = "idle" /\ \A h \in ReqSlots : h < q => reqs[h].pc # "idle"

\* the response of POST /api/auth/register
RegisterResponse(reg, code, userId) ==
  [NoResp EXCEPT !.op = "register", !.code = code, !.user = userId]

\* POST /api/auth/register arrives: getUserByEmail is called
RegisterArrive(g, body) ==
  /\ FreeReg(g)
  /\ regs' = [regs EXCEPT ![g] =
       [IdleReg EXCEPT !.pc = "email", !.email = body.email, !.role = body.role,
                       !.phone = body.phone, !.plate = body.plate,
                       !.existingUser = getUserByEmail(body.email)]]
  /\ resp' = NoResp
  /\ sent' = {}
  /\ UNCHANGED <<now, users, drivers, subscriptions, rides, favorites, reqs,
                 sockets, clients, rateLimits>>

\* after await getUserByEmail: the email check, then for a driver the plate
\* check and the call of getDriverByLicensePlate, else the call of register
RegisterCheck(g) ==
  /\ regs[g].pc = "email"
  /\ IF regs[g].existingUser # Null
          \/ (regs[g].role = "driver" /\ TrimUpper(regs[g].plate) = "")
       THEN /\ regs' = [regs EXCEPT ![g] = IdleReg]
            /\ resp' = RegisterResponse(regs[g], 400, Null)
       ELSE /\ regs' = [regs EXCEPT ![g] =
                 [@ EXCEPT !.pc = "register",
                           !.existingDriver =
                              IF regs[g].role = "driver"
                                THEN getDriverByLicensePlate(regs[g].plate)
                                ELSE Null]]
            /\ resp' = NoResp
  /\ sent' = {}
  /\ UNCHANGED <<now, users, drivers, subscriptions, rides, favorites, reqs,
                 sockets, clients, rateLimits>>

\* the records MemoryStorage.register stores
newUserOf(reg) == [email |-> reg.email, role |-> reg.role, phone |-> reg.phone]

newDriverOf(reg, userId) ==
  [userId |-> userId, licensePlate |-> TrimUpper(reg.plate), totalRides |-> 0]

\* newSubscriptionOf with the subscription created expired
newSubscriptionExpired(driverId) ==
  [driverId |-> driverId, status |-> "expired",
   trialEndsAt |-> AddMonths(now, TrialMonths)]

newSubscriptionOf(driverId) ==
  [driverId |-> driverId, status |-> "trial",
   trialEndsAt |-> AddMonths(now, TrialMonths)]

\* the subscriptions MemoryStorage.register leaves for a new driver
registerSubscriptions(driverId) == Append(subscriptions, newSubscriptionOf(driverId))

\* the plate check, then MemoryStorage.register after await bcrypt.hash:
\* the user, and for a driver with a plate the driver and its subscription
RegisterStore(g) ==
  /\ regs[g].pc = "register"
  /\ IF regs[g].existingDriver # Null
       THEN /\ resp' = RegisterResponse(regs[g], 400, Null)
            /\ UNCHANGED <<users, drivers, subscriptions>>
       ELSE /\ users' = Append(users, newUserOf(regs[g]))
            /\ IF regs[g].role = "driver" /\ regs[g].plate # ""
                 THEN /\ drivers' = Append(drivers, newDriverOf(regs[g], Len(users) + 1))
                      /\ subscriptions' = registerSubscriptions(Len(drivers) + 1)
                 ELSE UNCHANGED <<drivers, subscriptions>>
            /\ resp' = RegisterResponse(regs[g], 200, Len(users) + 1)
  /\ regs' = [regs EXCEPT ![g] = IdleReg]
  /\ sent' = {}
  /\ UNCHANGED <<now, rides, favorites, reqs, sockets, clients, rateLimits>>

\* ------------------------------------------------------- ride requests
\* a request with a valid token arrives: authMiddleware calls getUserByToken,
\* which reads the user and the driver record
Arrive(q, op, u, param, body) ==
  /\ FreeReq(q)
  /\ u \in DOMAIN users
  /\ reqs' = [reqs EXCEPT ![q] =
       [IdleReq EXCEPT !.op = op, !.pc = "handler", !.user = getUserWithDriver(u),
                       !.param = param, !.body = body]]
  /\ resp' = NoResp
  /\ sent' = {}
  /\ UNCHANGED <<now, users, drivers, subscriptions, rides, favorites, regs,
                 sockets, clients, rateLimits>>

\* creates whose ride is not stored yet
PendingCreates == {q \in ReqSlots : reqs[q].op = "create" /\ reqs[q].pc = "handler"}

ArriveCreate(q, u, body, limit) ==
  /\ Len(rides) + Cardinality(PendingCreates) < limit
  /\ Arrive(q, "create", u, Null, <<body>>)

ArriveAccept(q, u, id) == Arrive(q, "accept", u, id, <<>>)

ArriveStart(q, u, id) == Arrive(q, "start", u, id, <<>>)

\* the totalRides the sample driver and a registered driver start with
BaseTotalRides(d) == IF d = 1 THEN InitialTotalRides ELSE 0

ArriveComplete(q, u, id) ==
  /\ LET d == getUserWithDriver(u).driver
     IN d # Null => drivers[d].totalRides < BaseTotalRides(d) + MaxCompletions
  /\ Arrive(q, "complete", u, id, <<>>)

\* the bodies of PATCH /api/rides/:id/complete: finalPrice and distance, each
\* present or left out
CompleteBodies == [finalPrice : BodyPrices, distance : BodyPrices]

\* PATCH /api/rides/:id/complete with a body
ArriveCompleteWith(q, u, id, body) ==
  /\ LET d == getUserWithDriver(u).driver
     IN d # Null => drivers[d].totalRides < BaseTotalRides(d) + MaxCompletions
  /\ Arrive(q, "complete", u, id, <<body>>)

\* the handler of request q answers with status `code` and body `out`
Respond(q, code, out) ==
  /\ reqs' = [reqs EXCEPT ![q] = IdleReq]
  /\ resp' = [op |-> reqs[q].op, user |-> reqs[q].user.id,
              driver |-> reqs[q].user.driver, param |-> reqs[q].param,
              code |-> code, out |-> out, sub |-> reqs[q].sub,
              from |-> reqs[q].from]

\* POST /api/rides after authMiddleware: the role check, the parse, createRide
CreateHandler(q) ==
  /\ reqs[q].op = "create" /\ reqs[q].pc = "handler"
  /\ LET rideData == rideDataOf(reqs[q].user, reqs[q].body[1])
     IN IF reqs[q].user.role # "passenger"
          THEN Respond(q, 403, Null) /\ UNCHANGED rides
        ELSE IF ~insertRideSchemaAccepts(rideData)
          THEN Respond(q, 400, Null) /\ UNCHANGED rides
        ELSE /\ rides' = Append(rides, createRide(rideData))
             /\ reqs' = [reqs EXCEPT ![q] =
                  [@ EXCEPT !.pc = "updated", !.out = Len(rides) + 1, !.body = <<>>]]
             /\ resp' = NoResp
  /\ sent' = {}
  /\ UNCHANGED <<now, users, drivers, subscriptions, favorites, regs,
                 sockets, clients, rateLimits>>

\* the accept route's role check refuses
acceptRoleDenies(user) == user.role # "driver" \/ user.driver = Null

\* PATCH /api/rides/:id/accept after authMiddleware: the role check and the
\* call of getSubscriptionByDriverId
AcceptHandler(q) ==
  /\ reqs[q].op = "accept" /\ reqs[q].pc = "handler"
  /\ IF acceptRoleDenies(reqs[q].user)
       THEN Respond(q, 403, Null)
       ELSE /\ reqs' = [reqs EXCEPT ![q] =
                 [@ EXCEPT !.pc = "gate",
                           !.sub = subscriptionStatusOf(reqs[q].user.driver)]]
            /\ resp' = NoResp
  /\ sent' = {}
  /\ UNCHANGED <<now, users, drivers, subscriptions, rides, favorites, regs,
                 sockets, clients, rateLimits>>

\* CallUpdateRideStatus with the stored ride not returned
CallUpdateRideStatusLost(q, status, driverId) ==
  LET id == reqs[q].param
  IN /\ IF id \notin DOMAIN rides
          THEN UNCHANGED rides
          ELSE rides' = [rides EXCEPT ![id] = updateRideStatus(@, status, driverId)]
     /\ reqs' = [reqs EXCEPT ![q] = [@ EXCEPT !.pc = "updated", !.out = Null]]
     /\ resp' = NoResp

\* storage.updateRideStatus(id, status, driverId) called by request q
CallUpdateRideStatus(q, status, driverId) ==
  LET id == reqs[q].param
  IN /\ IF id \notin DOMAIN rides
          THEN /\ reqs' = [reqs EXCEPT ![q] = [@ EXCEPT !.pc = "updated", !.out = Null]]
               /\ UNCHANGED rides
          ELSE /\ rides' = [rides EXCEPT ![id] = updateRideStatus(@, status, driverId)]
               /\ reqs' = [reqs EXCEPT ![q] =
                    [@ EXCEPT !.pc = "updated", !.out = id, !.from = rides[id].status]]
     /\ resp' = NoResp

\* accept after await getSubscriptionByDriverId: the subscription check, then
\* updateRideStatus
AcceptGate(q) ==
  /\ reqs[q].op = "accept" /\ reqs[q].pc = "gate"
  /\ IF subscriptionDenies(reqs[q].sub)
       THEN Respond(q, 403, Null) /\ UNCHANGED rides
       ELSE CallUpdateRideStatus(q, "accepted", reqs[q].user.driver)
  /\ sent' = {}
  /\ UNCHANGED <<now, users, drivers, subscriptions, favorites, regs,
                 sockets, clients, rateLimits>>

\* StartHandler with the subscription check of the accept route
StartHandlerGated(q) ==
  /\ reqs[q].op = "start" /\ reqs[q].pc = "handler"
  /\ IF reqs[q].user.role # "driver"
          \/ subscriptionDenies(subscriptionStatusOf(reqs[q].user.driver))
       THEN Respond(q, 403, Null) /\ UNCHANGED rides
       ELSE CallUpdateRideStatus(q, "started", Null)
  /\ sent' = {}
  /\ UNCHANGED <<now, users, drivers, subscriptions, favorites, regs,
                 sockets, clients, rateLimits>>

\* PATCH /api/rides/:id/start after authMiddleware
StartHandler(q) ==
  /\ reqs[q].op = "start" /\ reqs[q].pc = "handler"
  /\ IF reqs[q].user.role # "driver"
       THEN Respond(q, 403, Null) /\ UNCHANGED rides
       ELSE CallUpdateRideStatus(q, "started", Null)
  /\ sent' = {}
  /\ UNCHANGED <<now, users, drivers, subscriptions, favorites, regs,
                 sockets, clients, rateLimits>>

\* PATCH /api/rides/:id/complete after authMiddleware
CompleteHandler(q) ==
  /\ reqs[q].op = "complete" /\ reqs[q].pc = "handler"
  /\ IF reqs[q].user.role # "driver"
       THEN Respond(q, 403, Null) /\ UNCHANGED rides
       ELSE CallUpdateRideStatus(q, "completed", Null)
  /\ sent' = {}
  /\ UNCHANGED <<now, users, drivers, subscriptions, favorites, regs,
                 sockets, clients, rateLimits>>

\* create, accept and start after the store call: 404 for no ride, else the
\* call of getRide for the notification
Updated(q) ==
  /\ reqs[q].op \in {"create", "accept", "start"} /\ reqs[q].pc = "updated"
  /\ IF reqs[q].out = Null
       THEN Respond(q, 404, Null)
       ELSE /\ reqs' = [reqs EXCEPT ![q] =
                 [@ EXCEPT !.pc = "notify", !.snapshot = getRide(reqs[q].out)]]
            /\ resp' = NoResp
  /\ sent' = {}
  /\ UNCHANGED <<now, users, drivers, subscriptions, rides, favorites, regs,
                 sockets, clients, rateLimits>>

\* complete after await updateRideStatus: for no ride res.json(null); else
\* updateDriver with the totalRides authMiddleware read, plus one
CompleteUpdated(q) ==
  /\ reqs[q].op = "complete" /\ reqs[q].pc = "updated"
  /\ IF reqs[q].out = Null
       THEN Respond(q, 200, Null) /\ UNCHANGED drivers
     ELSE IF reqs[q].user.driver # Null
       THEN /\ drivers' = [drivers EXCEPT ![reqs[q].user.driver] =
                             updateDriver(@, reqs[q].user.totalRides + 1)]
            /\ reqs' = [reqs EXCEPT ![q] = [@ EXCEPT !.pc = "stats"]]
            /\ resp' = NoResp
     ELSE /\ reqs' = [reqs EXCEPT ![q] =
                [@ EXCEPT !.pc = "notify", !.snapshot = getRide(reqs[q].out)]]
          /\ resp' = NoResp
          /\ UNCHANGED drivers
  /\ sent' = {}
  /\ UNCHANGED <<now, users, subscriptions, rides, favorites, regs,
                 sockets, clients, rateLimits>>

\* complete after await updateDriver: the call of getRide
CompleteStats(q) ==
  /\ reqs[q].op = "complete" /\ reqs[q].pc = "stats"
  /\ reqs' = [reqs EXCEPT ![q] =
       [@ EXCEPT !.pc = "notify", !.snapshot = getRide(reqs[q].out)]]
  /\ resp' = NoResp
  /\ sent' = {}
  /\ UNCHANGED <<now, users, drivers, subscriptions, rides, favorites, regs,
                 sockets, clients, rateLimits>>

\* ------------------------------------------------------------ WebSocket
\* a connection before its first message: let userId = null
NewSocket == [open |-> TRUE, userId |-> Null, auth |-> Null]

\* ws.readyState === WebSocket.OPEN
IsOpen(ws) == sockets[ws].open

\* broadcastToUser sending to every registered open socket
broadcastToUserAll(userId) ==
  {clients[u] : u \in {v \in DOMAIN clients : IsOpen(clients[v])}}

\* broadcastToUser without the readyState test
broadcastToUserStale(userId) ==
  IF userId \in DOMAIN clients THEN {clients[userId]} ELSE {}

\* the sockets broadcastToUser(userId, message) sends to
broadcastToUser(userId) ==
  IF userId \in DOMAIN clients /\ IsOpen(clients[userId])
    THEN {clients[userId]}
    ELSE {}

\* the sockets broadcastToDrivers(message) sends to
broadcastToDrivers ==
  {clients[u] : u \in {v \in DOMAIN clients : IsOpen(clients[v])}}

\* the message type each route sends
MessageType(op) ==
  CASE op = "create" -> "new_ride"
    [] op = "accept" -> "ride_accepted"
    [] op = "start" -> "ride_started"
    [] op = "complete" -> "ride_completed"

\* the message a route sends about ride `id`: `to` is the user it is addressed
\* to (Null for the broadcast), `sockets` the sockets send() was called on
MessageOf(op, id, snapshot) ==
  LET to == IF op = "create" THEN Null ELSE rides[id].passengerId
  IN [type |-> MessageType(op), to |-> to, ride |-> id, snapshot |-> snapshot,
      sockets |-> IF op = "create" THEN broadcastToDrivers ELSE broadcastToUser(to)]

\* wss.on('connection')
Connect ==
  /\ Len(sockets) < MaxSockets
  /\ sockets' = Append(sockets, NewSocket)
  /\ resp' = NoResp
  /\ sent' = {}
  /\ UNCHANGED <<now, users, drivers, subscriptions, rides, favorites, reqs, regs,
                 clients, rateLimits>>

\* ws.on('message') with {type: 'auth', token} of user u, up to
\* await storage.getUserByToken
AuthMessage(ws, u) ==
  /\ ws \in DOMAIN sockets /\ IsOpen(ws)
  /\ sockets[ws].auth = Null
  /\ u \in DOMAIN users
  /\ sockets' = [sockets EXCEPT ![ws] = [@ EXCEPT !.auth = u]]
  /\ resp' = NoResp
  /\ sent' = {}
  /\ UNCHANGED <<now, users, drivers, subscriptions, rides, favorites, reqs, regs,
                 clients, rateLimits>>

\* after await getUserByToken: userId = user.id, clients.set(userId, ws),
\* ws.send(auth_success)
AuthDone(ws) ==
  /\ ws \in DOMAIN sockets
  /\ sockets[ws].auth # Null
  /\ LET u == sockets[ws].auth
     IN /\ sockets' = [sockets EXCEPT ![ws] = [@ EXCEPT !.userId = u, !.auth = Null]]
        /\ clients' = [v \in DOMAIN clients \cup {u} |->
                         IF v = u THEN ws ELSE clients[v]]
        /\ sent' = IF IsOpen(ws)
                     THEN {[type |-> "auth_success", to |-> u, ride |-> Null,
                            snapshot |-> NoSnapshot, sockets |-> {ws}]}
                     ELSE {}
  /\ resp' = NoResp
  /\ UNCHANGED <<now, users, drivers, subscriptions, rides, favorites, reqs, regs,
                 rateLimits>>

\* ws.on('close'): if (userId) clients.delete(userId)
Close(ws) ==
  /\ ws \in DOMAIN sockets /\ IsOpen(ws)
  /\ sockets' = [sockets EXCEPT ![ws] = [@ EXCEPT !.open = FALSE]]
  /\ clients' = IF sockets[ws].userId # Null
                  THEN [v \in DOMAIN clients \ {sockets[ws].userId} |-> clients[v]]
                  ELSE clients
  /\ resp' = NoResp
  /\ sent' = {}
  /\ UNCHANGED <<now, users, drivers, subscriptions, rides, favorites, reqs, regs,
                 rateLimits>>

\* after await getRide: the notification is sent and res.json(ride) answers
Notify(q) ==
  /\ reqs[q].pc = "notify"
  /\ Respond(q, 200, reqs[q].out)
  /\ sent' = {MessageOf(reqs[q].op, reqs[q].out, reqs[q].snapshot)}
  /\ UNCHANGED <<now, users, drivers, subscriptions, rides, favorites, regs,
                 sockets, clients, rateLimits>>

\* ------------------------------------------------------------ favorites
\* Set.prototype.add and delete on a Set kept in insertion order
\* SetAdd on an array instead of a Set
SetAddAlways(set, x) == Append(set, x)

SetAdd(set, x) == IF x \in Range(set) THEN set ELSE Append(set, x)

SetDelete(set, x) == SelectSeq(set, LAMBDA y : y # x)

\* the map MemoryStorage.addFavorite leaves
addFavorite(passengerId, driverId) ==
  [p \in DOMAIN favorites \cup {passengerId} |->
     IF p = passengerId
       THEN SetAdd(IF p \in DOMAIN favorites THEN favorites[p] ELSE << >>, driverId)
       ELSE favorites[p]]

\* the map MemoryStorage.removeFavorite leaves
removeFavorite(passengerId, driverId) ==
  [p \in DOMAIN favorites |->
     IF p = passengerId THEN SetDelete(favorites[p], driverId) ELSE favorites[p]]

\* the ids of the drivers getFavoritesByPassenger returns, in order
getFavoritesByPassenger(passengerId) ==
  IF passengerId \notin DOMAIN favorites
    THEN << >>
    ELSE SelectSeq(favorites[passengerId], LAMBDA d : d \in DOMAIN drivers)

ArriveFavorite(q, u, driverId) == Arrive(q, "favorite", u, driverId, <<>>)

ArriveUnfavorite(q, u, driverId) == Arrive(q, "unfavorite", u, driverId, <<>>)

\* POST /api/favorites and DELETE /api/favorites/:driverId after authMiddleware
FavoriteHandler(q) ==
  /\ reqs[q].op \in {"favorite", "unfavorite"} /\ reqs[q].pc = "handler"
  /\ IF reqs[q].user.role # "passenger"
       THEN Respond(q, 403, Null) /\ UNCHANGED favorites
       ELSE /\ favorites' = IF reqs[q].op = "favorite"
                              THEN addFavorite(reqs[q].user.id, reqs[q].param)
                              ELSE removeFavorite(reqs[q].user.id, reqs[q].param)
            /\ reqs' = [reqs EXCEPT ![q] = [@ EXCEPT !.pc = "reply"]]
            /\ resp' = NoResp
  /\ sent' = {}
  /\ UNCHANGED <<now, users, drivers, subscriptions, rides, regs,
                 sockets, clients, rateLimits>>

\* after await addFavorite / removeFavorite: res.json
FavoriteReply(q) ==
  /\ reqs[q].pc = "reply"
  /\ Respond(q, 200, Null)
  /\ sent' = {}
  /\ UNCHANGED <<now, users, drivers, subscriptions, rides, favorites, regs,
                 sockets, clients, rateLimits>>

\* ------------------------------------------------------- SecurityManager
\* the keys checkRateLimit is called with
Identifiers == 1..2

\* checkRateLimit letting one more attempt through
checkRateLimitOffByOne(identifier) ==
  IF identifier \notin DOMAIN rateLimits
    THEN [ok |-> TRUE,
          map |-> [i \in DOMAIN rateLimits \cup {identifier} |->
                     IF i = identifier
                       THEN [count |-> 1, resetTime |-> now + windowMs]
                       ELSE rateLimits[i]]]
  ELSE IF now > rateLimits[identifier].resetTime
    THEN [ok |-> TRUE,
          map |-> [rateLimits EXCEPT ![identifier] =
                     [count |-> 1, resetTime |-> now + windowMs]]]
  ELSE IF rateLimits[identifier].count > maxAttempts
    THEN [ok |-> FALSE, map |-> rateLimits]
  ELSE [ok |-> TRUE,
        map |-> [rateLimits EXCEPT ![identifier].count = @ + 1]]

\* SecurityManager.checkRateLimit(identifier): the boolean it returns and the
\* rateLimitMap it leaves
checkRateLimit(identifier) ==
  IF identifier \notin DOMAIN rateLimits
    THEN [ok |-> TRUE,
          map |-> [i \in DOMAIN rateLimits \cup {identifier} |->
                     IF i = identifier
                       THEN [count |-> 1, resetTime |-> now + windowMs]
                       ELSE rateLimits[i]]]
  ELSE IF now > rateLimits[identifier].resetTime
    THEN [ok |-> TRUE,
          map |-> [rateLimits EXCEPT ![identifier] =
                     [count |-> 1, resetTime |-> now + windowMs]]]
  ELSE IF rateLimits[identifier].count >= maxAttempts
    THEN [ok |-> FALSE, map |-> rateLimits]
  ELSE [ok |-> TRUE,
        map |-> [rateLimits EXCEPT ![identifier].count = @ + 1]]

\* SecurityManager.resetRateLimit(identifier): the rateLimitMap it leaves
resetRateLimit(identifier) ==
  [i \in DOMAIN rateLimits \ {identifier} |-> rateLimits[i]]

\* SecurityManager.cleanup(): the rateLimitMap it leaves
cleanup ==
  [i \in {j \in DOMAIN rateLimits : ~(now > rateLimits[j].resetTime)} |->
     rateLimits[i]]

\* what a call of the SecurityManager leaves in resp: the method, the
\* identifier and the boolean returned (1 for true, 0 for false)
SecurityResponse(method, identifier, ok) ==
  [NoResp EXCEPT !.op = method, !.param = identifier,
                 !.out = IF ok THEN 1 ELSE 0]

\* a call of security.checkRateLimit(identifier)
CheckRateLimit(identifier) ==
  /\ rateLimits' = checkRateLimit(identifier).map
  /\ resp' = SecurityResponse("checkRateLimit", identifier,
                              checkRateLimit(identifier).ok)
  /\ sent' = {}
  /\ UNCHANGED <<now, users, drivers, subscriptions, rides, favorites, reqs, regs,
                 sockets, clients>>

\* a call of security.resetRateLimit(identifier)
ResetRateLimit(identifier) ==
  /\ rateLimits' = resetRateLimit(identifier)
  /\ resp' = SecurityResponse("resetRateLimit", identifier, TRUE)
  /\ sent' = {}
  /\ UNCHANGED <<now, users, drivers, subscriptions, rides, favorites, reqs, regs,
                 sockets, clients>>

\* a call of security.cleanup()
Cleanup ==
  /\ rateLimits' = cleanup
  /\ resp' = SecurityResponse("cleanup", Null, TRUE)
  /\ sent' = {}
  /\ UNCHANGED <<now, users, drivers, subscriptions, rides, favorites, reqs, regs,
                 sockets, clients>>

\* Date.now() grows by dt milliseconds
Advance(dt) ==
  /\ IF dt = windowMs
       THEN now \div windowMs < MaxWindows
       ELSE now % windowMs < MaxTime
  /\ now' = now + dt
  /\ resp' = NoResp
  /\ sent' = {}
  /\ UNCHANGED <<users, drivers, subscriptions, rides, favorites, reqs, regs,
                 sockets, clients, rateLimits>>

\* ------------------------------------------- storage calls without a route
\* storage.updateSubscription(id, {status}): IStorage offers it, no route calls it
UpdateSubscription(id, status) ==
  /\ id \in DOMAIN subscriptions
  /\ subscriptions[id].status # status
  /\ subscriptions' = [subscriptions EXCEPT ![id] = [@ EXCEPT !.status = status]]
  /\ resp' = NoResp
  /\ sent' = {}
  /\ UNCHANGED <<now, users, drivers, rides, favorites, reqs, regs,
                 sockets, clients, rateLimits>>

\* storage.updateRideStatus(id, 'cancelled'): the one way the code offers to
\* cancel a ride; no route calls it.  resp tells what the call returned
CancelRide(id) ==
  /\ IF id \notin DOMAIN rides
       THEN /\ resp' = [NoResp EXCEPT !.op = "cancel", !.param = id]
            /\ UNCHANGED rides
       ELSE /\ rides' = [rides EXCEPT ![id] = updateRideStatus(@, "cancelled", Null)]
            /\ resp' = [NoResp EXCEPT !.op = "cancel", !.param = id, !.out = id,
                                      !.from = rides[id].status]
  /\ sent' = {}
  /\ UNCHANGED <<now, users, drivers, subscriptions, favorites, reqs, regs,
                 sockets, clients, rateLimits>>

\* ------------------------------------------------------- specifications
\* no request is being handled: the next request is handled alone
Quiet == \A q \in ReqSlots : reqs[q].pc = "idle"

Handlers ==
  \E q \in ReqSlots :
    \/ CreateHandler(q)
    \/ AcceptHandler(q)
    \/ AcceptGate(q)
    \/ StartHandler(q)
    \/ CompleteHandler(q)
    \/ Updated(q)
    \/ CompleteUpdated(q)
    \/ CompleteStats(q)
    \/ Notify(q)

Arrivals ==
  \E q \in ReqSlots, u \in 1..Len(users) :
    \/ \E body \in CoreBodies : ArriveCreate(q, u, body, MaxRides)
    \/ \E id \in RideIds :
         \/ ArriveAccept(q, u, id)
         \/ ArriveStart(q, u, id)
         \/ ArriveComplete(q, u, id)

StorageCalls ==
  \E id \in 1..Len(subscriptions), status \in SubscriptionStatuses :
    UpdateSubscription(id, status)

\* the ride lifecycle of the users initializeData creates, requests
\* interleaving, the subscription status being set at any time
Next == Arrivals \/ Handlers \/ StorageCalls

Spec == Init /\ [][Next]_vars

\* registration of a driver, creation and acceptance of rides, interleaving
NextReg ==
  \/ \E g \in RegSlots :
       \/ \E body \in CoreRegistrations : RegisterArrive(g, body)
       \/ RegisterCheck(g)
       \/ RegisterStore(g)
  \/ \E q \in ReqSlots, u \in 1..Len(users) :
       \/ \E body \in CoreBodies : ArriveCreate(q, u, body, MaxRides)
       \/ \E id \in RideIds : ArriveAccept(q, u, id)
  \/ \E q \in ReqSlots :
       \/ CreateHandler(q)
       \/ AcceptHandler(q)
       \/ AcceptGate(q)
       \/ Updated(q)
       \/ Notify(q)

SpecReg == Init /\ [][NextReg]_vars

\* the ride lifecycle with the clock advancing, one request at a time
NextTime == Tick \/ (Quiet /\ Arrivals) \/ Handlers

SpecTime == Init /\ [][NextTime]_vars

\* the ride lifecycle, one request at a time, with the storage calls that no
\* route makes
NextStore ==
  \/ (Quiet /\ Arrivals)
  \/ Handlers
  \/ StorageCalls
  \/ \E id \in RideIds : Quiet /\ CancelRide(id)

SpecStore == Init /\ [][NextStore]_vars

\* the creation of rides from every body, one request at a time
NextCreate ==
  \/ \E g \in RegSlots :
       \/ \E body \in PassengerRegistrations : RegisterArrive(g, body)
       \/ RegisterCheck(g)
       \/ RegisterStore(g)
  \/ \E q \in ReqSlots, u \in 1..Len(users), body \in RideBodies :
       Quiet /\ ArriveCreate(q, u, body, MaxPricedRides)
  \/ \E q \in ReqSlots :
       \/ CreateHandler(q)
       \/ Updated(q)
       \/ Notify(q)

SpecCreate == Init /\ [][NextCreate]_vars

\* favorites of the passengers, requests interleaving
NextFav ==
  \/ \E g \in RegSlots :
       \/ \E body \in PassengerRegistrations \cup CoreRegistrations :
            RegisterArrive(g, body)
       \/ RegisterCheck(g)
       \/ RegisterStore(g)
  \/ \E q \in ReqSlots, u \in 1..Len(users), driverId \in FavoriteDriverIds :
       \/ ArriveFavorite(q, u, driverId)
       \/ ArriveUnfavorite(q, u, driverId)
  \/ \E q \in ReqSlots :
       \/ FavoriteHandler(q)
       \/ FavoriteReply(q)

SpecFav == Init /\ [][NextFav]_vars

\* the ride lifecycle, one request at a time, with the sessions of the
\* passenger and the driver connecting, authenticating and closing
NextWs ==
  \/ Connect
  \/ \E ws \in 1..MaxSockets :
       \/ \E u \in 2..Len(users) : AuthMessage(ws, u)
       \/ AuthDone(ws)
       \/ Close(ws)
  \/ \E q \in ReqSlots, u \in 2..Len(users) :
       /\ Quiet
       /\ \/ \E body \in CoreBodies : ArriveCreate(q, u, body, MaxRides)
          \/ \E id \in RideIds :
               \/ ArriveAccept(q, u, id)
               \/ ArriveStart(q, u, id)
               \/ ArriveComplete(q, u, id)
  \/ Handlers

SpecWs == Init /\ [][NextWs]_vars

\* registrations alone, their handlers interleaving at the awaits
NextDup ==
  \E g \in DupRegSlots :
    \/ \E body \in Registrations : RegisterArrive(g, body)
    \/ RegisterCheck(g)
    \/ RegisterStore(g)

SpecDup == Init /\ [][NextDup]_vars

\* the calls of the SecurityManager, the clock advancing by a millisecond or
\* by a window
NextRate ==
  \/ \E identifier \in Identifiers :
       \/ CheckRateLimit(identifier)
       \/ ResetRateLimit(identifier)
  \/ Cleanup
  \/ \E dt \in {1, windowMs} : Advance(dt)

SpecRate == Init /\ [][NextRate]_vars

\* the ride lifecycle, one request at a time, the clock advancing and the
\* subscription status being set at any time
NextSub == Tick \/ (Quiet /\ Arrivals) \/ Handlers \/ StorageCalls

SpecSub == Init /\ [][NextSub]_vars

\* the ride lifecycle, one request at a time, complete carrying a body
NextFinal ==
  \/ \E q \in ReqSlots, u \in 1..Len(users) :
       /\ Quiet
       /\ \/ \E body \in CoreBodies : ArriveCreate(q, u, body, MaxRides)
          \/ \E id \in RideIds :
               \/ ArriveAccept(q, u, id)
               \/ ArriveStart(q, u, id)
               \/ \E body \in CompleteBodies : ArriveCompleteWith(q, u, id, body)
  \/ Handlers

SpecFinal == Init /\ [][NextFinal]_vars

\* the ride lifecycle with a second driver registered, one request at a time
NextOwn ==
  \/ \E g \in RegSlots :
       \/ \E body \in CoreRegistrations : RegisterArrive(g, body)
       \/ RegisterCheck(g)
       \/ RegisterStore(g)
  \/ Quiet /\ Arrivals
  \/ Handlers

SpecOwn == Init /\ [][NextOwn]_vars

\* ================================================================ claims
RideOps == {"create", "accept", "start", "complete"}

\* request q is an accept whose updateRideStatus returned ride `id`: the
\* handler answers 200 with that ride whatever happens next
AcceptStored(q, id) ==
  /\ reqs[q].op = "accept"
  /\ reqs[q].pc \in {"updated", "notify"}
  /\ reqs[q].out = id

\* the drivers whose accept of ride `id` was just answered 200 or is stored
AcceptWinners(id) ==
  {d \in DOMAIN drivers :
     \/ resp.op = "accept" /\ resp.code = 200 /\ resp.out = id /\ resp.driver = d
     \/ \E q \in ReqSlots : AcceptStored(q, id) /\ reqs[q].user.driver = d}

\* C1: among the accept requests of distinct drivers on one ride whose handlers
\* interleave, at most one ends in success.
C1_AtMostOneAcceptSucceeds ==
  \A id \in RideIds : Cardinality(AcceptWinners(id)) <= 1

Edges == {<<"pending", "accepted">>, <<"accepted", "started">>,
          <<"started", "completed">>, <<"pending", "cancelled">>}

\* C2: every change of a stored ride follows an edge of the state machine; a
\* request for any other transition leaves the ride as it was.
C2_TransitionsFollowEdges ==
  [][\A id \in DOMAIN rides :
       rides'[id] # rides[id] => <<rides[id].status, rides'[id].status>> \in Edges]_vars

\* a <= b over the timestamps that are set
NotAfter(a, b) == a = Null \/ b = Null \/ a <= b

\* C3: a completed ride has requestedAt <= acceptedAt <= startedAt <=
\* completedAt over those of the four that are set.
C3_TimestampsOrdered ==
  \A id \in DOMAIN rides :
    rides[id].status = "completed" =>
      /\ NotAfter(rides[id].requestedAt, rides[id].acceptedAt)
      /\ NotAfter(rides[id].requestedAt, rides[id].startedAt)
      /\ NotAfter(rides[id].requestedAt, rides[id].completedAt)
      /\ NotAfter(rides[id].acceptedAt, rides[id].startedAt)
      /\ NotAfter(rides[id].acceptedAt, rides[id].completedAt)
      /\ NotAfter(rides[id].startedAt, rides[id].completedAt)

\* C4: an accept request whose handler read the subscription status expired
\* never gets past the subscription check, is answered 403 and leaves every
\* ride and driver as stored, whatever the target ride is.
C4_ExpiredAcceptForbidden ==
  /\ [](\A q \in ReqSlots :
          reqs[q].op = "accept" /\ reqs[q].sub = "expired" =>
            reqs[q].pc = "gate" /\ reqs[q].out = Null)
  /\ [][resp'.op = "accept" /\ resp'.sub = "expired" =>
          resp'.code = 403 /\ rides' = rides /\ drivers' = drivers]_vars

\* an expired driver was refused a pending ride
C4_Witness ==
  /\ resp.op = "accept" /\ resp.sub = "expired" /\ resp.code = 403
  /\ resp.param \in DOMAIN rides
  /\ rides[resp.param].status = "pending"

\* C5: cancelling a ride that is not pending (a started one in particular) is
\* refused and leaves the ride as it was.
C5_CancelOnlyFromPending ==
  [][resp'.op = "cancel" /\ resp'.from \notin {"none", "pending"} =>
       rides' = rides]_vars

\* C6: when the handler of a complete request that found its ride started,
\* sent by the ride's driver, writes the statistics, the ride has completedAt
\* set and the stored totalRides of that driver becomes one higher than it was.
C6_CompleteCountsOnce ==
  [][\A q \in ReqSlots :
       /\ reqs[q].op = "complete" /\ reqs[q].pc = "updated"
       /\ reqs[q].from = "started"
       /\ reqs'[q].pc # "updated"
       /\ rides[reqs[q].out].driverId = reqs[q].user.driver
       => LET d == rides[reqs[q].out].driverId
          IN /\ rides[reqs[q].out].completedAt # Null
             /\ d \in DOMAIN drivers
             /\ drivers'[d].totalRides = drivers[d].totalRides + 1]_vars

\* what the accept route answers to user u for ride id when its handler runs
\* with no other step in between
AcceptOutcome(u, id) ==
  LET user == getUserWithDriver(u)
  IN IF acceptRoleDenies(user) THEN 403
     ELSE IF subscriptionDenies(subscriptionStatusOf(user.driver)) THEN 403
     ELSE IF id \notin DOMAIN rides THEN 404
     ELSE 200

\* C7: the step that answers a driver's registration with success leaves one
\* Driver record of the new user, with one subscription, in trial until one
\* month later, and an accept by that user of any stored ride would succeed;
\* and no accept by a registered driver is refused.
C7_RegisteredDriverMayAccept ==
  /\ [][resp'.op = "register" /\ resp'.code = 200
          /\ users'[resp'.user].role = "driver" =>
          LET ds == {d \in DOMAIN drivers' : drivers'[d].userId = resp'.user}
          IN /\ Cardinality(ds) = 1
             /\ \A d \in ds :
                  LET ss == {x \in DOMAIN subscriptions' :
                               subscriptions'[x].driverId = d}
                  IN /\ Cardinality(ss) = 1
                     /\ \A x \in ss :
                          /\ subscriptions'[x].status = "trial"
                          /\ subscriptions'[x].trialEndsAt = AddMonths(now', 1)            ]_vars
  /\ [](\A u \in DOMAIN users : \A id \in DOMAIN rides :
          u > 3 /\ users[u].role = "driver" => AcceptOutcome(u, id) = 200)
  /\ [](resp.op = "accept" /\ resp.user > 3 => resp.code \in {200, 404})

\* a registered driver accepted a pending ride
C7_Witness ==
  /\ resp.op = "accept" /\ resp.code = 200 /\ resp.user > 3
  /\ resp.from = "pending"
  /\ rides[resp.out].driverId = resp.driver

Count(seq, x) == Cardinality({i \in DOMAIN seq : seq[i] = x})

\* C8: addFavorite(p, d) leaves d exactly once in the favorites of p, changes
\* nothing when d was there before, and leaves the favorites of every other
\* passenger as they were.
C8_AddFavoriteIdempotent ==
  [][\A q \in ReqSlots :
       reqs[q].op = "favorite" /\ reqs[q].pc = "handler" /\ reqs'[q].pc = "reply" =>
         LET p == reqs[q].user.id
             d == reqs[q].param
         IN /\ p \in DOMAIN favorites'
            /\ Count(favorites'[p], d) = 1
            /\ (p \in DOMAIN favorites /\ d \in Range(favorites[p])
                  => favorites' = favorites)
            /\ \A o \in DOMAIN favorites' \ {p} :
                 o \in DOMAIN favorites /\ favorites'[o] = favorites[o]]_vars

\* two requests of one passenger added the same driver, who is there once
C8_Witness ==
  \E q1, q2 \in ReqSlots :
    /\ q1 # q2
    /\ reqs[q1].op = "favorite" /\ reqs[q1].pc = "reply"
    /\ reqs[q2].op = "favorite" /\ reqs[q2].pc = "reply"
    /\ reqs[q1].user.id = reqs[q2].user.id
    /\ reqs[q1].param = reqs[q2].param
    /\ Count(favorites[reqs[q1].user.id], reqs[q1].param) = 1
    /\ Len(getFavoritesByPassenger(reqs[q1].user.id)) = 1

\* C9: a stored ride from Centro to Laginha has estimatedPrice 30000.
C9_ZonePriceStored ==
  \A id \in DOMAIN rides :
    rides[id].origin = "Centro" /\ rides[id].destination = "Laginha" =>
      rides[id].estimatedPrice = 30000

\* a ride from Centro to Laginha was stored after a ride of another route
C9_Witness ==
  /\ Len(rides) = 2
  /\ rides[1].origin = "Monte Sossego"
  /\ rides[2].origin = "Centro" /\ rides[2].destination = "Laginha"
  /\ rides[2].estimatedPrice = 30000

\* C10: a ride request answered with an error (400, 403, 404) has written
\* nothing: the answering step and every earlier step of a request that holds
\* no stored ride leave all rides and drivers as they were, and an error is
\* answered only by a request that holds no stored ride.
C10_ErrorsLeaveNoMutation ==
  [][\A q \in ReqSlots :
       reqs[q].op \in RideOps /\ reqs'[q] # reqs[q] =>
         /\ (reqs'[q].pc = "idle" /\ resp'.code \in {400, 403, 404} =>
               /\ reqs[q].out = Null /\ resp'.from = "none"
               /\ rides' = rides /\ drivers' = drivers)
         /\ (reqs'[q].pc # "idle" /\ reqs'[q].out = Null =>
               rides' = rides /\ drivers' = drivers)]_vars

\* a request on a stored, accepted ride was refused, the ride still accepted
C10_Witness ==
  /\ resp.op \in {"accept", "start", "complete"} /\ resp.code = 403
  /\ resp.param \in DOMAIN rides
  /\ rides[resp.param].status = "accepted"
  /\ rides[resp.param].startedAt = Null

\* C11: a start or complete request that stores its status on a ride that has
\* a driver comes from that driver.
C11_OnlyAcceptingDriver ==
  [][\A q \in ReqSlots :
       /\ reqs[q].op \in {"start", "complete"} /\ reqs[q].pc = "handler"
       /\ reqs'[q].pc = "updated" /\ reqs'[q].out # Null
       /\ rides[reqs[q].param].driverId # Null
       => rides[reqs[q].param].driverId = reqs[q].user.driver]_vars

\* C12: a ride has a driverId exactly when its status is accepted, started or
\* completed (a cancelled ride may have one or not).
C12_DriverIffAccepted ==
  \A id \in DOMAIN rides :
    \/ rides[id].status = "cancelled"
    \/ rides[id].driverId # Null
         <=> rides[id].status \in {"accepted", "started", "completed"}

\* C13: an accept request whose handler read the subscription status expired or
\* cancelled never stores the status accepted on a ride.
C13_GateDeniesExpiredAndCancelled ==
  \A q \in ReqSlots :
    reqs[q].op = "accept" /\ reqs[q].sub \in {"expired", "cancelled"} =>
      reqs[q].out = Null

\* C14: a start or complete request never reads the subscription: sent by a
\* driver it always reaches updateRideStatus, and it is answered 403 only to a
\* user whose role is not driver.
C14_GateOnlyOnAccept ==
  /\ [](\A q \in ReqSlots :
          reqs[q].op \in {"start", "complete"} => reqs[q].sub = "none")
  /\ [][\A q \in ReqSlots :
          /\ reqs[q].op \in {"start", "complete"} /\ reqs[q].pc = "handler"
          /\ reqs[q].user.role = "driver"
          /\ reqs'[q] # reqs[q]
          => reqs'[q].pc = "updated"]_vars
  /\ [][resp'.op \in {"start", "complete"} /\ resp'.code = 403 =>
          users[resp'.user].role # "driver"]_vars

\* the driver of a started ride, the subscription now expired, completed it
C14_Witness ==
  /\ resp.op = "complete" /\ resp.code = 200 /\ resp.from = "started"
  /\ resp.out # Null
  /\ rides[resp.out].driverId = resp.driver
  /\ rides[resp.out].status = "completed"
  /\ subscriptionStatusOf(resp.driver) = "expired"

\* C15: the step that answers a create with success sends new_ride to every
\* socket that is open, authenticated or not.
C15_NewRideToEveryOpenSocket ==
  [][resp'.op = "create" /\ resp'.code = 200 =>
       \E m \in sent' :
         /\ m.type = "new_ride"
         /\ \A ws \in DOMAIN sockets : IsOpen(ws) => ws \in m.sockets]_vars

RideMessages == {"ride_accepted", "ride_started", "ride_completed"}

\* the step answered an accept, start or complete with its ride
Succeeded == resp.op \in {"accept", "start", "complete"} /\ resp.code = 200
               /\ resp.out # Null

Reachable(u) == u \in DOMAIN clients /\ IsOpen(clients[u])

\* C17: a ride message is sent only in the step that answers its request, so a
\* socket that connects or authenticates later gets none of the earlier ones;
\* when the passenger has no open registered socket at that step, send() is
\* called on no socket, the request is still answered 200 and the ride and the
\* drivers stay as stored.
C17_DroppedNotQueued ==
  [][(\A m \in sent' :
        m.type \in RideMessages =>
          Succeeded' /\ m.ride = resp'.out /\ m.type = MessageType(resp'.op))
     /\ (Succeeded' /\ ~Reachable(rides[resp'.out].passengerId) =>
           /\ \A m \in sent' : m.sockets = {}
           /\ rides' = rides /\ drivers' = drivers
           /\ rides'[resp'.out].status # "pending")]_vars

\* ride_accepted was dropped while a socket of the passenger is in its handshake
C17_Witness ==
  /\ resp.op = "accept" /\ resp.code = 200
  /\ rides[resp.out].status = "accepted"
  /\ \E m \in sent :
       /\ m.type = "ride_accepted" /\ m.sockets = {}
       /\ \E ws \in DOMAIN sockets : IsOpen(ws) /\ sockets[ws].auth = m.to

\* C18: the create route answers 403 to a user who is not a passenger and stores
\* nothing; the ride it stores for a passenger is pending, of that passenger,
\* without driver, without acceptedAt, startedAt and completedAt, and priced by
\* calculatePrice.
C18_CreatedRideShape ==
  [][\A q \in ReqSlots :
       reqs[q].op = "create" /\ reqs[q].pc = "handler" /\ reqs'[q] # reqs[q] =>
         IF reqs[q].user.role # "passenger"
           THEN resp'.code = 403 /\ rides' = rides
           ELSE \/ Len(rides') = Len(rides)
                \/ LET ride == rides'[Len(rides')]
                       body == reqs[q].body[1]
                   IN /\ ride.status = "pending"
                      /\ ride.passengerId = reqs[q].user.id
                      /\ ride.driverId = Null
                      /\ ride.acceptedAt = Null /\ ride.startedAt = Null
                      /\ ride.completedAt = Null
                      /\ ride.estimatedPrice =
                           calculatePrice(body.origin, body.destination) * CentsPerUnit]_vars

\* C19: a create request of a passenger whose origin equals its destination, or
\* that has no passenger phone, is answered 400, stores no ride and sends no
\* message.
C19_InvalidRideRejected ==
  [][\A q \in ReqSlots :
       /\ reqs[q].op = "create" /\ reqs[q].pc = "handler" /\ reqs'[q] # reqs[q]
       /\ reqs[q].user.role = "passenger"
       /\ \/ reqs[q].body[1].origin = reqs[q].body[1].destination
          \/ rideDataOf(reqs[q].user, reqs[q].body[1]).passengerPhone = Undefined
       => resp'.code = 400 /\ rides' = rides /\ sent' = {}]_vars

\* C20: an accept, start or complete request answered without a ride is answered
\* with an error.
C20_NotFoundIsAnError ==
  [][resp'.op \in {"accept", "start", "complete"} /\ resp'.out = Null =>
       resp'.code \in {403, 404}]_vars

\* the call of checkRateLimit the last step made returned true
Allowed(i) == resp.op = "checkRateLimit" /\ resp.param = i /\ resp.out = 1

\* the call of checkRateLimit the last step made returned false
Limited(i) == resp.op = "checkRateLimit" /\ resp.param = i /\ resp.out = 0

\* the window of identifier i is running
InWindow(i) == i \in DOMAIN rateLimits /\ ~(now > rateLimits[i].resetTime)

\* C30: the count of an identifier is the number of calls of checkRateLimit that
\* returned true in its window and never exceeds maxAttempts: a call returning
\* true in a running window adds one to a count below maxAttempts, a call
\* returning true outside a window (none yet, reset time passed, or after
\* resetRateLimit or cleanup removed the entry) leaves count 1, a call
\* returning false happens only in a running window with count maxAttempts and
\* changes nothing; no call changes the entry of another identifier.
C30_RateLimitWindow ==
  /\ [](\A i \in DOMAIN rateLimits : rateLimits[i].count \in 1..maxAttempts)
  /\ [][\A i \in Identifiers :
          /\ Allowed(i)' /\ InWindow(i) =>
               /\ rateLimits[i].count < maxAttempts
               /\ rateLimits'[i] = [rateLimits[i] EXCEPT !.count = @ + 1]
          /\ Allowed(i)' /\ ~InWindow(i) =>
               rateLimits'[i] = [count |-> 1, resetTime |-> now + windowMs]
          /\ Limited(i)' =>
               /\ InWindow(i) /\ rateLimits[i].count = maxAttempts
               /\ rateLimits' = rateLimits
          /\ resp'.op \in {"checkRateLimit", "resetRateLimit"} /\ resp'.param # i =>
               /\ i \in DOMAIN rateLimits' <=> i \in DOMAIN rateLimits
               /\ i \in DOMAIN rateLimits => rateLimits'[i] = rateLimits[i]
          /\ resp'.op = "resetRateLimit" /\ resp'.param = i =>
               i \notin DOMAIN rateLimits']_vars

\* an identifier is refused in its window while another one is still let through
C30_Witness ==
  \E i, j \in Identifiers :
    /\ i # j
    /\ Limited(i)
    /\ rateLimits[i].count = maxAttempts
    /\ j \in DOMAIN rateLimits /\ rateLimits[j].count < maxAttempts
    /\ now > windowMs

\* C21: no two stored users have the same email.
C21_EmailUnique ==
  \A u, v \in DOMAIN users : u # v => users[u].email # users[v].email

\* C22: a timestamp of a ride that is set is never changed.
C22_TimestampsWrittenOnce ==
  [][\A id \in DOMAIN rides :
       /\ rides[id].requestedAt # Null => rides'[id].requestedAt = rides[id].requestedAt
       /\ rides[id].acceptedAt # Null => rides'[id].acceptedAt = rides[id].acceptedAt
       /\ rides[id].startedAt # Null => rides'[id].startedAt = rides[id].startedAt
       /\ rides[id].completedAt # Null => rides'[id].completedAt = rides[id].completedAt]_vars

\* C26: the driverId of a ride, once set, is never changed.
C26_DriverIdStable ==
  [][\A id \in DOMAIN rides :
       rides[id].driverId # Null => rides'[id].driverId = rides[id].driverId]_vars

\* the rides with status completed whose driver is d
CompletedBy(d) ==
  {id \in DOMAIN rides : rides[id].status = "completed" /\ rides[id].driverId = d}

\* C27: when no request is being handled, the totalRides of every driver has
\* grown by the number of completed rides of that driver.
C27_TotalRidesCountsCompleted ==
  Quiet =>
    \A d \in DOMAIN drivers :
      drivers[d].totalRides - BaseTotalRides(d) = Cardinality(CompletedBy(d))

\* C23: when a complete request that answers 200 with a ride carries a
\* finalPrice and/or a distance, the stored ride has finalPrice and distance
\* equal to the supplied values afterwards, and null for what was left out
C23_FinalDetailsRecorded ==
  [][\A q \in ReqSlots :
       (/\ reqs[q].op = "complete" /\ reqs[q].pc = "notify"
        /\ reqs'[q].pc = "idle" /\ reqs[q].body # <<>>)
       => (/\ rides'[reqs[q].out].finalPrice = reqs[q].body[1].finalPrice
           /\ rides'[reqs[q].out].distance = reqs[q].body[1].distance)]_vars

\* C25: the ride_accepted message sent for a driver's accept carries a ride
\* with status accepted and that driver as driverId, whatever other request
\* was processed between the store update and the read of the snapshot
C25_SnapshotIsTransitionResult ==
  [][\A q \in ReqSlots :
       (reqs[q].op = "accept" /\ reqs[q].pc = "notify" /\ reqs'[q].pc = "idle")
       => \A m \in sent' :
            /\ m.type = "ride_accepted"
            /\ m.snapshot.status = "accepted"
            /\ m.snapshot.driverId = reqs[q].user.driver]_vars

\* C28: whenever a user has an open session that completed the
\* authentication handshake, the registry maps that user to an open session
\* of theirs
C28_RegistryReachesOpenSession ==
  \A u \in 1..Len(users) :
    (\E ws \in DOMAIN sockets : IsOpen(ws) /\ sockets[ws].userId = u)
    => /\ u \in DOMAIN clients
       /\ IsOpen(clients[u])
       /\ sockets[clients[u]].userId = u

\* C29: a message addressed to a user is only sent on sessions whose most
\* recent successful authentication was for that user
C29_SentOnlyToOwnSession ==
  [][\A m \in sent' :
       m.to # Null => \A ws \in m.sockets : sockets'[ws].userId = m.to]_vars

\* date `d` lies before the clock, the clock counting months
Passed(d) == now > d.from + d.months

\* C24: a step that changes a stored subscription's status is no step of a
\* ride request, sends nothing and lets no time pass (it is a call of
\* updateSubscription), and an accept that read status trial passes the gate
C24_StatusChangesOnlyExplicitly ==
  [][/\ (\E s \in DOMAIN subscriptions :
           subscriptions'[s].status # subscriptions[s].status)
        => (/\ reqs' = reqs /\ now' = now /\ sent' = {}
            /\ rides' = rides /\ drivers' = drivers)
     /\ (\A q \in ReqSlots :
           (/\ reqs[q].op = "accept" /\ reqs[q].pc = "gate"
            /\ reqs[q].sub = "trial" /\ reqs'[q] # reqs[q])
           => reqs'[q].pc = "updated")]_vars

\* an accept of a driver on trial is answered 200, the ride accepted after the
\* trial's end, the subscription still on trial
C24_Witness ==
  /\ resp.op = "accept" /\ resp.code = 200 /\ resp.out # Null
  /\ resp.sub = "trial"
  /\ \E s \in DOMAIN subscriptions :
       /\ subscriptions[s].driverId = resp.driver
       /\ subscriptions[s].status = "trial"
       /\ Passed(subscriptions[s].trialEndsAt)
       /\ rides[resp.out].acceptedAt > subscriptions[s].trialEndsAt.from
                                        + subscriptions[s].trialEndsAt.months

====
